---- MODULE Spec2Model ----
(***************************************************************************)
(* Model of src/v2csv.py: one run of main() authenticates once, fans out   *)
(* one fetch_product_data task per product path under an asyncio           *)
(* semaphore, gathers the results in input order, merges them with the     *)
(* existing export.csv (append) or not (overwrite), drops rows that repeat *)
(* a (Product Code, Date Listed) key and writes the CSV.  The program may  *)
(* be run again on the file it wrote.                                      *)
(*                                                                         *)
(* Strings that the code takes apart (paths, product codes) are sequences  *)
(* of one-character or one-token strings; the CSV file holds text, a       *)
(* DataFrame holds typed cells, and read_csv / to_csv convert between the  *)
(* two for the Product Code column as pandas does (a column whose cells    *)
(* are all integer literals is loaded as integers, an empty or absent cell  *)
(* is NaN).  The other columns hold non-numeric text, which pandas loads   *)
(* back unchanged.                                                         *)
(***************************************************************************)
EXTENDS Integers, Sequences, FiniteSets, TLC

VARIABLES
    csv,             \* export.csv on disk: [exists, readable, columns, rows (text)]
    today,           \* the wall-clock date, read by datetime.today()
    product_paths,   \* the non-blank stripped lines of products.txt
    vendor,          \* the vendor API: clean path -> its four responses
    run,             \* how many times the program has been started
    mainpc,          \* position of main(): "start", "auth", "gather", "done"
    current_date,    \* main: current_date
    choice,          \* main: choice ('A' or 'O')
    existing_df,     \* main: existing_df  [isNone, rows]
    existing_pairs,  \* main: existing_pairs [isNone, pairs]
    access_token,    \* main: access_token (None until authenticated)
    semaphore,       \* asyncio.Semaphore: its internal counter _value
    pc,              \* per task: "pending","catalog","product","price","inventory","done"
    locals,          \* per task: vendorSKU, unit_list_price_display, per_units, status
    results,         \* per task: what fetch_product_data returned
    calls,           \* per task: the vendor endpoints it has called (history)
    completed,       \* task ids in the order their invocations returned (history)
    token_calls,     \* number of token endpoint calls of this run (history)
    token_resp,      \* the token endpoint's answer in this run (history)
    writes,          \* number of to_csv calls of this run (history)
    outcome,         \* how this run ended (history)
    skipped_count,   \* main: skipped_count
    csv0,            \* export.csv as it was when this run started (history)
    headers,         \* main: headers, handed to every task
    carried,         \* per task: the headers its vendor calls were sent with (history)
    prev             \* the previous run: its date, choice, outcome, results (history)

vars == <<csv, today, product_paths, vendor, run, mainpc, current_date, choice,
          existing_df, existing_pairs, access_token, semaphore, pc, locals,
          results, calls, completed, token_calls, token_resp, writes,
          outcome, skipped_count, csv0, prev, headers, carried>>

-----------------------------------------------------------------------------
(* Bounds of the model *)

\* src/v2csv.py:37 sets 15; the model runs with a smaller number of slots
\* so that input lists longer than the limit stay within reach.
CONCURRENCY_LIMIT == 2
\* longest input list when the program is followed over several runs
MaxItems == 2
\* longest input list when one run is followed
GateItems == 3
\* how many times the program is started
MaxRuns == 2
\* longest breadCrumbs list
MaxCrumbs == 4
\* longest product path, in tokens, when the path handling is followed
MaxPathLen == 3
\* length of the input list when termination is followed
LiveItems == 3

None == "<None>"

Dates == <<"11/06/2026", "11/07/2026">>

REMOTE_BASE_URL == <<"B">>

\* The lines of products.txt the model draws from.
Paths == { <<"a">>, <<"B", "b", "?", "x">> }

Digits == {"0", "1", "2", "3", "4", "5", "6", "7", "8", "9"}

\* The product codes (productName) the vendor's catalog may return.
Codes == { <<"W", "A">>, <<"7">> }

-----------------------------------------------------------------------------
(* Strings *)

RECURSIVE FirstIndex(_, _, _)
\* index of the first occurrence of token c in s at or after i, 0 if none
FirstIndex(s, c, i) ==
    IF i > Len(s) THEN 0
    ELSE IF s[i] = c THEN i
    ELSE FirstIndex(s, c, i + 1)

\* str.split('?')[0]
SplitFirst(s, c) ==
    LET k == FirstIndex(s, c, 1)
    IN  IF k = 0 THEN s ELSE SubSeq(s, 1, k - 1)

\* str.startswith
StartsWith(s, p) ==
    /\ Len(p) <= Len(s)
    /\ SubSeq(s, 1, Len(p)) = p

RECURSIVE StripAllPrefixes(_, _)
\* s without every leading repetition of p
StripAllPrefixes(s, p) ==
    IF StartsWith(s, p) THEN StripAllPrefixes(SubSeq(s, Len(p) + 1, Len(s)), p) ELSE s

\* a clean path that loses every leading repetition of the base URL
CleanPath_all_prefixes(path) ==
    StripAllPrefixes(SplitFirst(path, "?"), REMOTE_BASE_URL)

\* fetch_product_data, lines 60-62: clean_path
CleanPath(path) ==
    LET q == SplitFirst(path, "?")
    IN  IF StartsWith(q, REMOTE_BASE_URL)
        THEN SubSeq(q, Len(REMOTE_BASE_URL) + 1, Len(q))
        ELSE q

CleanPaths == { CleanPath(p) : p \in Paths }

RECURSIVE strip(_)
\* str.strip: drop leading and trailing blanks
strip(s) ==
    IF s = <<>> THEN s
    ELSE IF Head(s) = " " THEN strip(Tail(s))
    ELSE IF s[Len(s)] = " " THEN strip(SubSeq(s, 1, Len(s) - 1))
    ELSE s

-----------------------------------------------------------------------------
(* The CSV file and pandas *)

\* A cell of the Product Code column of a DataFrame: a Python str, or an
\* int (held as its decimal digits without leading zeros).
StrCell(text) == [t |-> "str", v |-> text]
IntCell(text) == [t |-> "int", v |-> text]
\* A float cell (held as the text pandas prints for it) and the missing
\* value NaN, which pandas writes as an empty cell.
FloatCell(text) == [t |-> "float", v |-> text \o <<".", "0">>]
NaNCell == [t |-> "nan", v |-> <<>>]
\* NaN in the Date Listed column
NaN == "<NaN>"

IsIntText(text) ==
    /\ text # <<>>
    /\ \A i \in 1..Len(text) : text[i] \in Digits

RECURSIVE StripZeros(_)
\* the decimal digits of int(text)
StripZeros(text) ==
    IF Len(text) > 1 /\ Head(text) = "0" THEN StripZeros(Tail(text)) ELSE text

\* The row dict built by fetch_product_data, as a DataFrame row.
Row(date, link, id, code, sku, title, price, per, status, cats) ==
    [ DateListed  |-> date,
      Link        |-> link,
      HiddenID    |-> id,
      ProductCode |-> code,
      VendorSKU   |-> sku,
      Title       |-> title,
      ListPrice   |-> price,
      Per         |-> per,
      Status      |-> status,
      categories  |-> cats ]

\* Key of a DataFrame row for drop_duplicates and for existing_pairs.
KeyOf(r) == <<r.ProductCode, r.DateListed>>

\* Key of a row of the file: the two cells as text.
TextKeyOf(r) == <<r.ProductCode, r.DateListed>>

\* pd.read_csv on the rows of the file.  An empty cell, and every cell of a
\* column the file does not have once the frame is concatenated with one
\* that has it, is NaN.  The Product Code column is parsed as integers when
\* every cell of the column is an integer literal, as floats when the cells
\* are integer literals and empty cells, and is left as strings otherwise.
read_csv(rows) ==
    LET filled == { i \in 1..Len(rows) : rows[i].ProductCode # <<>> }
        numeric == filled # {} /\ \A i \in filled : IsIntText(rows[i].ProductCode)
        allInt == numeric /\ filled = 1..Len(rows)
    IN  [ i \in 1..Len(rows) |->
            [ rows[i] EXCEPT
                !.ProductCode = IF @ = <<>> THEN NaNCell
                                ELSE IF allInt THEN IntCell(StripZeros(@))
                                ELSE IF numeric THEN FloatCell(StripZeros(@))
                                ELSE StrCell(@),
                !.DateListed = IF @ = "" THEN NaN ELSE @ ] ]

\* DataFrame.to_csv: every cell is written as its text, NaN as nothing.
to_csv(df) ==
    [ i \in 1..Len(df) |->
        [ df[i] EXCEPT !.ProductCode = @.v,
                       !.DateListed = IF @ = NaN THEN "" ELSE @ ] ]

\* pd.DataFrame(new_data): the dicts become rows, cells keep their values.
DataFrame(new_data) == new_data

\* pd.concat([a, b], ignore_index=True)
concat(a, b) == a \o b

\* rows of df at the positions in keep, in order
RECURSIVE Take(_, _, _)
Take(df, keep, i) ==
    IF i > Len(df) THEN <<>>
    ELSE (IF i \in keep THEN <<df[i]>> ELSE <<>>) \o Take(df, keep, i + 1)

\* drop_duplicates with keep='first': a row stays unless an earlier row has
\* an equal key.
drop_duplicates_keep_first(df) ==
    Take(df, { i \in 1..Len(df) :
                 \A j \in 1..(i - 1) : KeyOf(df[j]) # KeyOf(df[i]) }, 1)

\* DataFrame.drop_duplicates(subset=['Product Code','Date Listed'], keep='last'):
\* a row stays unless a later row has an equal key.  pandas takes two NaN
\* cells of a key column as equal.
drop_duplicates(df) ==
    Take(df, { i \in 1..Len(df) :
                 \A j \in (i + 1)..Len(df) : KeyOf(df[j]) # KeyOf(df[i]) }, 1)

\* set(zip(existing_df['Product Code'], existing_df['Date Listed']))
PairsOf(df) == { KeyOf(df[i]) : i \in 1..Len(df) }

\* The columns of a report the program writes.
ReportColumns == {"Date Listed", "Link", "Hidden ID", "Product Code", "Vendor SKU",
                  "Title", "List Price", "Per", "Status", "category_N"}

\* export.csv does not exist.
NoFile == [exists |-> FALSE, readable |-> FALSE, columns |-> {}, rows |-> <<>>]

-----------------------------------------------------------------------------
(* The vendor API *)

\* the text of the i-th breadcrumb of a catalog page
CrumbText(i) == <<"crumb", i>>

\* a breadCrumbs list of n entries
BreadCrumbsOf(n) == [ i \in 1..n |-> [text |-> CrumbText(i)] ]

\* Responses of the catalog endpoint: the call raises (timeout, connection
\* error), answers with a non-200 status, answers 200 without productId, or
\* answers 200 with a product.
CatalogResponse(exc, status, id, name, crumbs) ==
    [ exc |-> exc, status_code |-> status, productId |-> id,
      productName |-> name, title |-> "Title", breadCrumbs |-> crumbs ]

CatalogRaises == { CatalogResponse(TRUE, 0, None, <<>>, <<>>) }

CatalogFailures ==
    { CatalogResponse(FALSE, 500, None, <<>>, <<>>),
      CatalogResponse(FALSE, 200, None, <<"W", "A">>, <<>>) }

CatalogProducts(crumbLens) ==
    { CatalogResponse(FALSE, 200, "pid", c, BreadCrumbsOf(n)) :
        c \in Codes, n \in crumbLens }

\* Responses of the product, price and inventory endpoints: the call raises,
\* answers non-200, answers 200 with an empty result list, or answers 200
\* with one result.
ListResponse(exc, status, items) ==
    [ exc |-> exc, status_code |-> status, items |-> items ]

ListResponses(item) ==
    { ListResponse(TRUE, 0, <<>>),
      ListResponse(FALSE, 500, <<>>),
      ListResponse(FALSE, 200, <<>>),
      ListResponse(FALSE, 200, <<item>>) }

ProductItem == [manufacturerItem |-> "MFR-1"]
PriceItem == [ unitListPriceDisplay |-> "$9.99",
               additionalResults |-> [unitOfMeasure |-> "EA"] ]
InventoryItem == [ additionalResults |-> [subMessageType |-> "InStock"] ]

\* Responses of the token endpoint: the call raises, answers non-2xx,
\* answers 2xx without access_token, or answers with a token.
TokenResponses ==
    { [exc |-> TRUE,  status_code |-> 0,   access_token |-> None],
      [exc |-> FALSE, status_code |-> 401, access_token |-> None],
      [exc |-> FALSE, status_code |-> 200, access_token |-> None],
      [exc |-> FALSE, status_code |-> 200, access_token |-> "tok"] }

\* no answer yet
NoResponse == [exc |-> FALSE, status_code |-> 0, access_token |-> None]

\* What the vendor answers for one clean path.
VendorEntries(catalogs, products, prices, inventories) ==
    [ catalog : catalogs, product : products, price : prices,
      inventory : inventories ]

-----------------------------------------------------------------------------
(* State of a run *)

Tasks == 1..Len(product_paths)

BlankRow == Row(None, <<>>, None, StrCell(<<>>), None, None, None, None, None, <<>>)

\* What a fetch_product_data invocation returns.
Pending == [kind |-> "pending", row |-> BlankRow]
ReturnNone == [kind |-> "None", row |-> BlankRow]
Skipped(product_name) ==
    [kind |-> "skip", row |-> [BlankRow EXCEPT !.ProductCode = StrCell(product_name)]]
ReturnRow(row) == [kind |-> "row", row |-> row]

NoLocals == [ vendorSKU |-> None, unit_list_price_display |-> None,
              per_units |-> None, status |-> None ]

NoFrame == [isNone |-> TRUE, rows |-> <<>>]
\* headers is not built before line 208
NoHeaders == [Authorization |-> <<>>]
NoPairs == [isNone |-> TRUE, pairs |-> {}]

NoPrev == [ ran |-> FALSE, date |-> None, choice |-> "O", outcome |-> "none",
            results |-> <<>> ]

\* The per-run state before main() has done anything.
FreshRun ==
    /\ mainpc = "start"
    /\ current_date = None
    /\ choice = "O"
    /\ existing_df = NoFrame
    /\ existing_pairs = NoPairs
    /\ access_token = None
    /\ semaphore = 0
    /\ pc = [t \in Tasks |-> "none"]
    /\ locals = [t \in Tasks |-> NoLocals]
    /\ results = [t \in Tasks |-> Pending]
    /\ calls = [t \in Tasks |-> {}]
    /\ headers = NoHeaders
    /\ carried = [t \in Tasks |-> {}]
    /\ completed = <<>>
    /\ token_calls = 0
    /\ token_resp = NoResponse
    /\ writes = 0
    /\ outcome = "none"
    /\ skipped_count = 0

\* A report left by a run of an earlier day: one row.
OldDate == "11/05/2026"

OldReport(code) ==
    [ exists |-> TRUE, readable |-> TRUE, columns |-> ReportColumns,
      rows |-> to_csv(<< Row(OldDate, REMOTE_BASE_URL \o <<"o">>, "pid", StrCell(code),
                             "MFR-1", "Title", "$9.99", "EA", "InStock", <<>>) >>) ]

\* export.csv when the program is first started in the model
InitialReports == {NoFile, OldReport(<<"7">>)}

\* Input lists of 1..n product paths.
PathLists(n) == UNION { [1..k -> Paths] : k \in 1..n }

OkOnly(item) == { ListResponse(FALSE, 200, <<item>>) }

\* The vendor when several items are followed: each catalog page answers
\* with a failure status, without productId, or with a product, and the
\* product, price and inventory lookups succeed.
PlainVendors ==
    [ CleanPaths -> VendorEntries(CatalogFailures \cup CatalogProducts({3}),
                                  OkOnly(ProductItem), OkOnly(PriceItem),
                                  OkOnly(InventoryItem)) ]

\* First start of the program: no export.csv or an older one, any input
\* list of up to MaxItems paths.
Init ==
    /\ csv \in InitialReports
    /\ today = 1
    /\ run = 1
    /\ prev = NoPrev
    /\ csv0 = csv
    /\ product_paths \in PathLists(MaxItems)
    /\ vendor \in PlainVendors
    /\ FreshRun

\* First start of the program with an input list of up to GateItems paths,
\* or with a products.txt that holds no path.
InitGate ==
    /\ csv \in InitialReports
    /\ today = 1
    /\ run = 1
    /\ prev = NoPrev
    /\ csv0 = csv
    /\ product_paths \in PathLists(GateItems) \cup {<<>>}
    /\ vendor \in PlainVendors
    /\ FreshRun

DefaultEntry ==
    [ catalog   |-> CatalogResponse(FALSE, 200, "pid", <<"W", "A">>, BreadCrumbsOf(3)),
      product   |-> ListResponse(FALSE, 200, <<ProductItem>>),
      price     |-> ListResponse(FALSE, 200, <<PriceItem>>),
      inventory |-> ListResponse(FALSE, 200, <<InventoryItem>>) ]

\* First start of the program with a single product path and every
\* combination of responses of the four endpoints for it.
InitFetch ==
    /\ csv \in InitialReports
    /\ today = 1
    /\ run = 1
    /\ prev = NoPrev
    /\ csv0 = csv
    /\ product_paths \in PathLists(1)
    /\ \E e \in VendorEntries(CatalogRaises \cup CatalogFailures
                                \cup CatalogProducts(0..MaxCrumbs),
                              ListResponses(ProductItem), ListResponses(PriceItem),
                              ListResponses(InventoryItem)) :
          vendor = [ cp \in CleanPaths |->
                       IF cp = CleanPath(product_paths[1]) THEN e ELSE DefaultEntry ]
    /\ FreshRun

\* The cells of a row of a file that does not have the columns in missing.
Blanked(r, missing) ==
    [ r EXCEPT !.ProductCode = IF "Product Code" \in missing THEN <<>> ELSE @,
               !.DateListed = IF "Date Listed" \in missing THEN "" ELSE @ ]

\* A report in an older layout (src/script.py writes "Date Scanned", not
\* "Date Listed"): the columns in missing are absent; it has two rows, of
\* one product recorded twice.
LegacyReport(missing) ==
    [ exists |-> TRUE, readable |-> TRUE, columns |-> ReportColumns \ missing,
      rows |-> [ i \in 1..2 |->
                   Blanked(OldReport(<<"W", "A">>).rows[1], missing) ] ]

\* Reports with a dedup key column missing.
LegacyReports ==
    { LegacyReport(m) : m \in (SUBSET {"Product Code", "Date Listed"}) \ {{}} }

\* A report of an earlier day that records a product code with a leading zero.
ZeroCodeReport == OldReport(<<"0", "7">>)

\* First start of the program on a report it did not write in this layout.
InitLegacy ==
    /\ csv \in LegacyReports \cup {ZeroCodeReport}
    /\ today = 1
    /\ run = 1
    /\ prev = NoPrev
    /\ csv0 = csv
    /\ product_paths \in PathLists(MaxItems)
    /\ vendor \in PlainVendors
    /\ FreshRun

\* The tokens a line of products.txt is made of when the path handling is
\* followed: the base URL, a path segment, the query mark.
PathTokens == {"B", "a", "?"}

\* Every line of up to MaxPathLen tokens.
PathInputs == UNION { [1..k -> PathTokens] : k \in 1..MaxPathLen }

\* First start of the program with a single product path made of any
\* tokens; the vendor answers every catalog path with a product.
InitPath ==
    /\ csv \in InitialReports
    /\ today = 1
    /\ run = 1
    /\ prev = NoPrev
    /\ csv0 = csv
    /\ product_paths \in [1..1 -> PathInputs]
    /\ vendor = [ cp \in { CleanPath(p) : p \in PathInputs } |-> DefaultEntry ]
    /\ FreshRun

\* A report written earlier on the first day of the model.
TodayReport ==
    [ OldReport(<<"W", "A">>) EXCEPT
        !.rows = [ i \in 1..1 |-> [ @[i] EXCEPT !.DateListed = Dates[1] ] ] ]

\* What the vendor answers for a path when termination is followed: a call
\* inside the try block raises, at the catalog lookup or after the catalog
\* and product calls went through.
RaisingEntries ==
    { [DefaultEntry EXCEPT !.catalog = CatalogResponse(TRUE, 0, None, <<>>, <<>>)],
      [DefaultEntry EXCEPT !.price = ListResponse(TRUE, 0, <<>>)] }

\* The vendor when termination is followed: the path "a" is one whose
\* calls raise, every other path is answered in full.
LiveVendors ==
    LET bad == CleanPath(<<"a">>)
    IN  { [ cp \in CleanPaths |-> IF cp = bad THEN e ELSE DefaultEntry ] :
            e \in RaisingEntries }

\* First start of the program with an input list of LiveItems paths, more
\* than there are slots.
InitLive ==
    /\ csv \in {NoFile, TodayReport}
    /\ today = 1
    /\ run = 1
    /\ prev = NoPrev
    /\ csv0 = csv
    /\ product_paths \in [1..LiveItems -> Paths]
    /\ vendor \in LiveVendors
    /\ FreshRun

\* What the vendor answers for a path whose item fails: the catalog call
\* raises, answers with a failure status or without productId, or a later
\* call raises.
FailingEntries ==
    { [DefaultEntry EXCEPT !.catalog = c] : c \in CatalogRaises \cup CatalogFailures }
    \cup { [DefaultEntry EXCEPT !.inventory = ListResponse(TRUE, 0, <<>>)] }

\* The vendor when a failing item runs next to others: the path "a" fails,
\* every other path is answered in full.
SiblingVendors ==
    LET bad == CleanPath(<<"a">>)
    IN  { [ cp \in CleanPaths |-> IF cp = bad THEN e ELSE DefaultEntry ] :
            e \in FailingEntries }

\* First start of the program with an input list of up to GateItems paths,
\* one of which names an item that fails.
InitSiblings ==
    /\ csv \in {NoFile, TodayReport, OldReport(<<"7">>)}
    /\ today = 1
    /\ run = 1
    /\ prev = NoPrev
    /\ csv0 = csv
    /\ product_paths \in PathLists(GateItems)
    /\ vendor \in SiblingVendors
    /\ FreshRun

-----------------------------------------------------------------------------
(* main(), before the fetch phase *)

\* main, lines 152-198: the date, the append/overwrite prompt, the load of
\* the existing report and of the product paths.
Main_Start ==
    /\ mainpc = "start"
    /\ current_date' = Dates[today]
    /\ \E answer \in {"A", "O"} :
          IF csv.exists /\ answer = "A"
          THEN IF csv.readable
               THEN LET df == read_csv(csv.rows)
                    IN  /\ choice' = "A"
                        /\ existing_df' = [isNone |-> FALSE, rows |-> df]
                        /\ existing_pairs' =
                             IF {"Product Code", "Date Listed"} \subseteq csv.columns
                             THEN [isNone |-> FALSE, pairs |-> PairsOf(df)]
                             ELSE NoPairs
               ELSE \* read_csv raised: "Defaulting to Overwrite"
                    /\ choice' = "O"
                    /\ existing_df' = NoFrame
                    /\ existing_pairs' = NoPairs
          ELSE /\ choice' = "O"
               /\ existing_df' = NoFrame
               /\ existing_pairs' = NoPairs
    /\ IF product_paths = <<>>
       THEN mainpc' = "done" /\ outcome' = "no_paths"
       ELSE mainpc' = "auth" /\ outcome' = outcome
    /\ UNCHANGED <<csv, today, product_paths, vendor, run, access_token, semaphore,
                   pc, locals, results, calls, completed, token_calls, token_resp,
                   writes, skipped_count, csv0, prev, headers, carried>>

\* a token step that takes whatever a 2xx answer carries
get_access_token_raises_no_key(resp) ==
    \/ resp.exc
    \/ resp.status_code \notin 200..299

\* get_access_token, lines 50-52: the post raises, raise_for_status raises
\* on a non-2xx status, or the ["access_token"] lookup raises KeyError.
get_access_token_raises(resp) ==
    \/ resp.exc
    \/ resp.status_code \notin 200..299
    \/ resp.access_token = None

\* headers that carry no token
bearer_anonymous(token) == [Authorization |-> <<"Bearer", None>>]

\* line 208: headers
bearer(token) == [Authorization |-> <<"Bearer", token>>]

\* main, lines 201-211: one token call; on failure the run returns, on
\* success the semaphore and one task per product path are created.
Authenticate ==
    /\ mainpc = "auth"
    /\ token_calls' = token_calls + 1
    /\ \E resp \in TokenResponses :
          /\ token_resp' = resp
          /\ IF get_access_token_raises(resp)
             THEN /\ mainpc' = "done"
                  /\ outcome' = "auth_error"
                  /\ UNCHANGED <<access_token, headers, semaphore, pc>>
             ELSE /\ access_token' = resp.access_token
                  /\ headers' = bearer(resp.access_token)
                  /\ semaphore' = CONCURRENCY_LIMIT
                  /\ pc' = [t \in Tasks |-> "pending"]
                  /\ mainpc' = "gather"
                  /\ UNCHANGED outcome
    /\ UNCHANGED <<csv, today, product_paths, vendor, run, current_date, choice,
                   existing_df, existing_pairs, locals, results, calls, completed,
                   writes, skipped_count, csv0, prev, carried>>

-----------------------------------------------------------------------------
(* fetch_product_data *)

\* a gate that admits every task
locked_never(sem) == FALSE

\* asyncio.Semaphore.locked(): no slot is free
locked(sem) == sem = 0

\* a return that leaves the "async with" block without giving the slot back
Return_keeps_slot(t, r) ==
    /\ results' = [results EXCEPT ![t] = r]
    /\ pc' = [pc EXCEPT ![t] = "done"]
    /\ semaphore' = semaphore
    /\ completed' = Append(completed, t)

\* a return that, when the invocation failed, also ends every invocation
\* that has not returned yet, as a failure that reaches gather would
Return_fail_fast(t, r) ==
    LET ends == IF r.kind = "None" THEN { u \in Tasks : pc[u] # "done" } ELSE {t}
    IN  /\ results' = [ u \in Tasks |-> IF u = t THEN r
                                          ELSE IF u \in ends THEN ReturnNone
                                          ELSE results[u] ]
        /\ pc' = [ u \in Tasks |-> IF u \in ends THEN "done" ELSE pc[u] ]
        /\ semaphore' = semaphore + 1
        /\ completed' = Append(completed, t)

\* fetch_product_data returns r: the result reaches gather and the
\* "async with semaphore" block is left, which releases the slot.
Return(t, r) ==
    /\ results' = [results EXCEPT ![t] = r]
    /\ pc' = [pc EXCEPT ![t] = "done"]
    /\ semaphore' = semaphore + 1
    /\ completed' = Append(completed, t)

\* lines 55-64: the task enters "async with semaphore" when a slot is free;
\* a blank path returns None at once.
Acquire(t) ==
    /\ mainpc = "gather"
    /\ pc[t] = "pending"
    /\ ~locked(semaphore)
    /\ IF strip(product_paths[t]) = <<>>
       THEN /\ results' = [results EXCEPT ![t] = ReturnNone]
            /\ pc' = [pc EXCEPT ![t] = "done"]
            /\ completed' = Append(completed, t)
            /\ UNCHANGED semaphore
       ELSE /\ pc' = [pc EXCEPT ![t] = "catalog"]
            /\ semaphore' = semaphore - 1
            /\ UNCHANGED <<results, completed>>
    /\ UNCHANGED <<csv, today, product_paths, vendor, run, mainpc, current_date,
                   choice, existing_df, existing_pairs, access_token, locals, calls,
                   token_calls, token_resp, writes, outcome, skipped_count, csv0, prev, headers, carried>>

\* the clean path of task t
clean_path(t) == CleanPath(strip(product_paths[t]))

\* a catalog step that does not look for the productId
catalog_result_any_id(resp, pairs, date) ==
    IF resp.exc THEN "error"
    ELSE IF resp.status_code # 200 THEN "failed"
    ELSE IF ~pairs.isNone /\ <<StrCell(resp.productName), date>> \in pairs.pairs
         THEN "skip"
    ELSE "continue"

\* lines 68-85: what the catalog response leads to.  product_name is a
\* str, so the pair looked up in existing_pairs carries a str cell.
catalog_result(resp, pairs, date) ==
    IF resp.exc THEN "error"
    ELSE IF resp.status_code # 200 THEN "failed"
    ELSE IF resp.productId = None THEN "no_product_id"
    ELSE IF ~pairs.isNone /\ <<StrCell(resp.productName), date>> \in pairs.pairs
         THEN "skip"
    ELSE "continue"

\* category columns that drop the first breadcrumb only
category_cols_keep_last(bread_crumbs) ==
    IF Len(bread_crumbs) > 2
    THEN [ i \in 1..(Len(bread_crumbs) - 1) |-> bread_crumbs[i + 1].text ]
    ELSE <<>>

\* lines 87-93: category_1..category_k, held as the sequence of their values
category_cols(bread_crumbs) ==
    IF Len(bread_crumbs) > 2
    THEN [ i \in 1..(Len(bread_crumbs) - 2) |-> bread_crumbs[i + 1].text ]
    ELSE <<>>

\* lines 66-93: the catalog call and what follows it up to the next await.
CatalogCall(t) ==
    /\ pc[t] = "catalog"
    /\ calls' = [calls EXCEPT ![t] = @ \cup {"catalog"}]
    /\ carried' = [carried EXCEPT ![t] = @ \cup {headers}]
    /\ LET resp == vendor[clean_path(t)].catalog
           what == catalog_result(resp, existing_pairs, current_date)
       IN  CASE what = "continue" ->
                  /\ pc' = [pc EXCEPT ![t] = "product"]
                  /\ UNCHANGED <<results, semaphore, completed>>
             [] what = "skip" -> Return(t, Skipped(resp.productName))
             [] OTHER -> Return(t, ReturnNone)
    /\ UNCHANGED <<csv, today, product_paths, vendor, run, mainpc, current_date,
                   choice, existing_df, existing_pairs, access_token, locals,
                   token_calls, token_resp, writes, outcome, skipped_count, csv0, prev, headers>>

\* lines 99-103: vendorSKU from the product response
vendorSKU_of(resp) ==
    IF resp.status_code = 200 /\ resp.items # <<>>
    THEN resp.items[1].manufacturerItem
    ELSE None

\* lines 110-117: unit_list_price_display and per_units from the price response
price_of(resp) ==
    IF resp.status_code = 200 /\ resp.items # <<>>
    THEN [ unit_list_price_display |-> resp.items[1].unitListPriceDisplay,
           per_units |-> resp.items[1].additionalResults.unitOfMeasure ]
    ELSE [ unit_list_price_display |-> None, per_units |-> None ]

\* an inventory lookup that fills in a default when no result came back
status_of_default(resp) ==
    IF resp.status_code = 200 /\ resp.items # <<>>
    THEN resp.items[1].additionalResults.subMessageType
    ELSE "Unknown"

\* lines 123-129: status from the inventory response
status_of(resp) ==
    IF resp.status_code = 200 /\ resp.items # <<>>
    THEN resp.items[1].additionalResults.subMessageType
    ELSE None

\* A call inside the try block raised: lines 148-150 return None.
\* Otherwise the task goes on to its next await with its locals updated.
AfterCall(t, resp, next, newLocals) ==
    IF resp.exc
    THEN /\ Return(t, ReturnNone)
         /\ UNCHANGED locals
    ELSE /\ pc' = [pc EXCEPT ![t] = next]
         /\ locals' = [locals EXCEPT ![t] = newLocals]
         /\ UNCHANGED <<results, semaphore, completed>>

\* lines 95-103: the product (Vendor SKU) call
ProductCall(t) ==
    /\ pc[t] = "product"
    /\ calls' = [calls EXCEPT ![t] = @ \cup {"product"}]
    /\ carried' = [carried EXCEPT ![t] = @ \cup {headers}]
    /\ LET resp == vendor[clean_path(t)].product
       IN  AfterCall(t, resp, "price",
                     [locals[t] EXCEPT !.vendorSKU = vendorSKU_of(resp)])
    /\ UNCHANGED <<csv, today, product_paths, vendor, run, mainpc, current_date,
                   choice, existing_df, existing_pairs, access_token,
                   token_calls, token_resp, writes, outcome, skipped_count, csv0, prev, headers>>

\* lines 105-117: the price call
PriceCall(t) ==
    /\ pc[t] = "price"
    /\ calls' = [calls EXCEPT ![t] = @ \cup {"price"}]
    /\ carried' = [carried EXCEPT ![t] = @ \cup {headers}]
    /\ LET resp == vendor[clean_path(t)].price
           p == price_of(resp)
       IN  AfterCall(t, resp, "inventory",
                     [locals[t] EXCEPT
                        !.unit_list_price_display = p.unit_list_price_display,
                        !.per_units = p.per_units])
    /\ UNCHANGED <<csv, today, product_paths, vendor, run, mainpc, current_date,
                   choice, existing_df, existing_pairs, access_token,
                   token_calls, token_resp, writes, outcome, skipped_count, csv0, prev, headers>>

\* lines 131-146: the row dict
row_of(t, cat, loc, date) ==
    Row(date, REMOTE_BASE_URL \o clean_path(t), cat.productId,
        StrCell(cat.productName), loc.vendorSKU, cat.title,
        loc.unit_list_price_display, loc.per_units, loc.status,
        category_cols(cat.breadCrumbs))

\* lines 119-146: the inventory call, then the row is assembled and returned
InventoryCall(t) ==
    /\ pc[t] = "inventory"
    /\ calls' = [calls EXCEPT ![t] = @ \cup {"inventory"}]
    /\ carried' = [carried EXCEPT ![t] = @ \cup {headers}]
    /\ LET resp == vendor[clean_path(t)].inventory
           loc == [locals[t] EXCEPT !.status = status_of(resp)]
       IN  IF resp.exc
           THEN /\ Return(t, ReturnNone)
                /\ UNCHANGED locals
           ELSE /\ Return(t, ReturnRow(row_of(t, vendor[clean_path(t)].catalog,
                                              loc, current_date)))
                /\ locals' = [locals EXCEPT ![t] = loc]
    /\ UNCHANGED <<csv, today, product_paths, vendor, run, mainpc, current_date,
                   choice, existing_df, existing_pairs, access_token,
                   token_calls, token_resp, writes, outcome, skipped_count, csv0, prev, headers>>

-----------------------------------------------------------------------------
(* main(), after the fetch phase *)

RECURSIVE RowsOf(_, _)
\* line 216: the rows among results[i..], in the order of the results list
RowsOf(res, i) ==
    IF i > Len(res) THEN <<>>
    ELSE (IF res[i].kind = "row" THEN <<res[i].row>> ELSE <<>>) \o RowsOf(res, i + 1)

RECURSIVE RowsInOrder(_, _, _)
\* the rows among the results of the tasks order[i..], in that order
RowsInOrder(res, order, i) ==
    IF i > Len(order) THEN <<>>
    ELSE (IF res[order[i]].kind = "row" THEN <<res[order[i]].row>> ELSE <<>>)
         \o RowsInOrder(res, order, i + 1)

\* new_data collected in the order the invocations returned
new_data_as_completed(res) == RowsInOrder(res, completed, 1)

\* line 216: new_data
new_data_of(res) == RowsOf(res, 1)

\* line 217: skipped_count
skipped_count_of(res) == Cardinality({ i \in 1..Len(res) : res[i].kind = "skip" })

\* lines 230-240: df_final
df_final_of(ch, existing, new_data) ==
    LET df_new == DataFrame(new_data)
    IN  IF ch = "A"
        THEN drop_duplicates(concat(existing.rows, df_new))
        ELSE drop_duplicates(df_new)

\* a run that writes whatever it has
nothing_to_write_never(new_data) == FALSE

\* lines 222-227: nothing is written when no row was fetched
nothing_to_write(new_data) == new_data = <<>>

\* a wait that ends with the first invocation that returns
gather_returns_on_first == \E t \in Tasks : pc[t] = "done"

\* line 213: asyncio.gather returns once every task has returned
gather_returns == \A t \in Tasks : pc[t] = "done"

\* lines 213-243: gather returns once every task is done; the results are
\* filtered, merged, deduplicated and written.
GatherAndWrite ==
    /\ mainpc = "gather"
    /\ gather_returns
    /\ LET new_data == new_data_of(results)
       IN  /\ skipped_count' = skipped_count_of(results)
           /\ IF nothing_to_write(new_data)
              THEN /\ outcome' = "no_data"
                   /\ UNCHANGED <<csv, writes>>
              ELSE /\ csv' = [ exists   |-> TRUE,
                               readable |-> TRUE,
                               columns  |-> IF choice = "A"
                                            THEN csv.columns \cup ReportColumns
                                            ELSE ReportColumns,
                               rows     |-> to_csv(df_final_of(choice, existing_df,
                                                               new_data)) ]
                   /\ writes' = writes + 1
                   /\ outcome' = "written"
    /\ mainpc' = "done"
    /\ UNCHANGED <<today, product_paths, vendor, run, current_date, choice,
                   existing_df, existing_pairs, access_token, semaphore, pc, locals,
                   results, calls, completed, token_calls, token_resp, csv0, prev, headers, carried>>

\* lines 245-246: the program is started again, the same day or the next,
\* on the same products.txt and the export.csv the last run left.
Rerun ==
    /\ mainpc = "done"
    /\ run < MaxRuns
    /\ run' = run + 1
    /\ today' \in {today, today + 1} \cap (1..Len(Dates))
    /\ prev' = [ ran |-> TRUE, date |-> current_date, choice |-> choice,
                 outcome |-> outcome, results |-> results ]
    /\ mainpc' = "start"
    /\ current_date' = None
    /\ choice' = "O"
    /\ existing_df' = NoFrame
    /\ existing_pairs' = NoPairs
    /\ access_token' = None
    /\ semaphore' = 0
    /\ pc' = [t \in Tasks |-> "none"]
    /\ locals' = [t \in Tasks |-> NoLocals]
    /\ results' = [t \in Tasks |-> Pending]
    /\ calls' = [t \in Tasks |-> {}]
    /\ headers' = NoHeaders
    /\ carried' = [t \in Tasks |-> {}]
    /\ completed' = <<>>
    /\ token_calls' = 0
    /\ token_resp' = NoResponse
    /\ writes' = 0
    /\ outcome' = "none"
    /\ skipped_count' = 0
    /\ csv0' = csv
    /\ UNCHANGED <<csv, product_paths, vendor>>

\* the steps of one run of the program
OneRun ==
    \/ Main_Start
    \/ Authenticate
    \/ \E t \in Tasks : Acquire(t)
    \/ \E t \in Tasks : CatalogCall(t)
    \/ \E t \in Tasks : ProductCall(t)
    \/ \E t \in Tasks : PriceCall(t)
    \/ \E t \in Tasks : InventoryCall(t)
    \/ GatherAndWrite

Next == OneRun \/ Rerun

\* the program run up to MaxRuns times on lists of up to MaxItems paths
Spec == Init /\ [][Next]_vars

\* one run on a list of up to GateItems paths
SpecGate == InitGate /\ [][OneRun]_vars

\* one run on a single path, with every combination of vendor responses
SpecFetch == InitFetch /\ [][OneRun]_vars

\* one run on a report in an older layout or with zero-led product codes
SpecLegacy == InitLegacy /\ [][OneRun]_vars

\* one run on a single path made of any tokens
SpecPath == InitPath /\ [][OneRun]_vars

\* one run on a list in which one path names an item that fails
SpecSiblings == InitSiblings /\ [][OneRun]_vars

\* one run on a list of LiveItems paths in which the event loop keeps
\* running whatever is ready: main goes on, a task whose vendor call has
\* returned or timed out (httpx timeout, line 200) is resumed, a task waiting
\* for a slot is woken when one is free.
SpecLive == InitLive /\ [][OneRun]_vars /\ WF_vars(OneRun)

-----------------------------------------------------------------------------
(* Properties *)

\* the invocations admitted by the semaphore that have not yet returned
InFlight == { t \in Tasks : pc[t] \in {"catalog", "product", "price", "inventory"} }

\* the run got through the fetch phase (gather returned)
FetchPhaseDone == mainpc = "done" /\ outcome \in {"written", "no_data"}

\* the catalog response of task t
catalog_of(t) == vendor[clean_path(t)].catalog

\* the catalog lookup of task t succeeds with a productId
CatalogOk(t) ==
    /\ ~catalog_of(t).exc
    /\ catalog_of(t).status_code = 200
    /\ catalog_of(t).productId # None

\* the key of task t's product as it reads in the report
TextKeyOfTask(t) == <<catalog_of(t).productName, current_date>>

\* the keys of a file, as they read
TextKeys(rows) == { TextKeyOf(rows[i]) : i \in 1..Len(rows) }

\* C1: at most CONCURRENCY_LIMIT invocations are admitted and not yet
\* returned, whatever the length of the input list and the interleaving, and
\* a vendor call is only ever issued by an invocation that holds a slot.
C1_BoundedConcurrency ==
    /\ [](Cardinality(InFlight) <= CONCURRENCY_LIMIT /\ semaphore >= 0)
    /\ [][\A t \in Tasks : calls'[t] \ calls[t] # {} => t \in InFlight]_vars

\* C1 witness: every slot is taken by an invocation that has called the
\* vendor, while another invocation still waits for a slot.
C1_Witness ==
    /\ Cardinality(InFlight) = CONCURRENCY_LIMIT
    /\ \A t \in InFlight : calls[t] # {}
    /\ \E t \in Tasks : pc[t] = "pending"

\* C2: after a run that wrote the report, no two rows of the file have the
\* same (Product Code, Date Listed).
C2_NoDuplicateKeys ==
    (mainpc = "done" /\ outcome = "written") =>
        \A i, j \in 1..Len(csv.rows) :
            TextKeyOf(csv.rows[i]) = TextKeyOf(csv.rows[j]) => i = j

\* C3: in append mode an item whose (Product Code, current date) is in the
\* existing report comes back Skipped, having made no vendor call beyond the
\* catalog lookup that yields its key, and the run adds no row for it.
C3_SkipExisting ==
    \A t \in Tasks :
        (/\ choice = "A"
         /\ CatalogOk(t)
         /\ TextKeyOfTask(t) \in TextKeys(csv0.rows)
         /\ pc[t] \notin {"none", "pending", "catalog"})
        => /\ pc[t] = "done"
           /\ results[t].kind = "skip"
           /\ calls[t] = {"catalog"}
           /\ (mainpc = "done" => csv = csv0)

\* the three best-effort lookups of task t, none of which raised
product_of(t) == vendor[clean_path(t)].product
pricing_of(t) == vendor[clean_path(t)].price
inventory_of(t) == vendor[clean_path(t)].inventory

\* a lookup came back without a usable result
Failed(resp) == resp.exc \/ resp.status_code # 200 \/ resp.items = <<>>

\* task t got past the catalog step of this run without being skipped
Proceeds(t) ==
    /\ CatalogOk(t)
    /\ ~(choice = "A" /\ results[t].kind = "skip")

\* C4: once the catalog lookup has given a productId (and the item is not
\* skipped), the invocation returns a row after making all three of the
\* product, price and inventory calls, whichever of them raise; the fields
\* of a call that raised are null.
C4_ExceptionsTolerated ==
    \A t \in Tasks :
        (pc[t] = "done" /\ Proceeds(t)) =>
            /\ results[t].kind = "row"
            /\ calls[t] = {"catalog", "product", "price", "inventory"}
            /\ (product_of(t).exc => results[t].row.VendorSKU = None)
            /\ (pricing_of(t).exc => results[t].row.ListPrice = None)
            /\ (inventory_of(t).exc => results[t].row.Status = None)

\* C5: when the catalog lookup has given a productId and the product, price
\* and inventory lookups each answer (with any status, with or without a
\* result), the invocation returns a row that has all the catalog-derived
\* fields, null in the fields of every lookup that failed and the looked-up
\* values in the fields of every lookup that succeeded.
C5_PartialFailure ==
    \A t \in Tasks :
        (/\ pc[t] = "done"
         /\ Proceeds(t)
         /\ ~product_of(t).exc /\ ~pricing_of(t).exc /\ ~inventory_of(t).exc)
        => LET r == results[t].row
               c == catalog_of(t)
           IN  /\ results[t].kind = "row"
               /\ r.HiddenID = c.productId
               /\ r.ProductCode = StrCell(c.productName)
               /\ r.Title = c.title
               /\ r.DateListed = current_date
               /\ r.Link = REMOTE_BASE_URL \o clean_path(t)
               /\ Len(r.categories) = (IF Len(c.breadCrumbs) > 2
                                       THEN Len(c.breadCrumbs) - 2 ELSE 0)
               /\ r.VendorSKU = (IF Failed(product_of(t)) THEN None
                                 ELSE product_of(t).items[1].manufacturerItem)
               /\ r.ListPrice = (IF Failed(pricing_of(t)) THEN None
                                 ELSE pricing_of(t).items[1].unitListPriceDisplay)
               /\ r.Per = (IF Failed(pricing_of(t)) THEN None
                           ELSE pricing_of(t).items[1].additionalResults.unitOfMeasure)
               /\ r.Status = (IF Failed(inventory_of(t)) THEN None
                              ELSE inventory_of(t).items[1].additionalResults.subMessageType)

\* C5 witness: a row was returned although exactly the price lookup failed.
C5_Witness ==
    \E t \in Tasks :
        /\ pc[t] = "done" /\ results[t].kind = "row"
        /\ ~pricing_of(t).exc /\ Failed(pricing_of(t))
        /\ ~Failed(product_of(t)) /\ ~Failed(inventory_of(t))
        /\ results[t].row.ListPrice = None
        /\ results[t].row.VendorSKU # None /\ results[t].row.Status # None

\* the catalog lookup of task t answers, but not with status 200 and a productId
CatalogUnusable(t) ==
    /\ ~catalog_of(t).exc
    /\ (catalog_of(t).status_code # 200 \/ catalog_of(t).productId = None)

\* C7: an item whose catalog lookup is not a 200 with a productId returns
\* None after the catalog call alone and leaves no row in the report, and
\* the run goes on: the other items still come back with a row or Skipped
\* and the run ends by the merge, not by an error.
C7_CatalogFailureDropsItem ==
    \A t \in Tasks :
        (CatalogUnusable(t) /\ pc[t] = "done") =>
            /\ results[t].kind = "None"
            /\ calls[t] = {"catalog"}
            /\ (mainpc = "done" =>
                  /\ FetchPhaseDone
                  /\ \A i \in 1..Len(csv.rows) :
                        csv.rows[i].Link # REMOTE_BASE_URL \o clean_path(t)
                  /\ \A u \in Tasks :
                        (CatalogOk(u) /\ ~product_of(u).exc /\ ~pricing_of(u).exc
                           /\ ~inventory_of(u).exc)
                        => results[u].kind \in {"row", "skip"})

\* C7 witness: a run has ended in which one item was dropped on its catalog
\* lookup and another item's row was written.
C7_Witness ==
    /\ mainpc = "done" /\ outcome = "written"
    /\ \E t, u \in Tasks :
          /\ CatalogUnusable(t) /\ results[t].kind = "None"
          /\ results[u].kind = "row"

\* the token endpoint did not give a token
TokenFailed ==
    \/ token_resp.exc
    \/ token_resp.status_code # 200
    \/ token_resp.access_token = None

\* C8: when the token call fails or answers without access_token, the run
\* ends there: one token call, no fetcher started, no vendor call made, the
\* report file as it was.
C8_AuthFailureAborts ==
    (token_calls > 0 /\ TokenFailed) =>
        /\ mainpc = "done"
        /\ outcome = "auth_error"
        /\ token_calls = 1
        /\ \A t \in Tasks : pc[t] = "none" /\ calls[t] = {} /\ results[t] = Pending
        /\ writes = 0
        /\ csv = csv0

\* C8 witness: a run on an existing report ended on a 2xx token answer that
\* lacks access_token.
C8_Witness ==
    /\ mainpc = "done"
    /\ token_calls = 1
    /\ token_resp.status_code = 200 /\ token_resp.access_token = None
    /\ csv.exists

\* a DataFrame row as it reads in the file
TextOf(r) == [r EXCEPT !.ProductCode = @.v]

\* the tasks of this run that returned a row
RowTasks == { t \in Tasks : results[t].kind = "row" }

\* the position in `completed` at which task t returned
CompletedAt(t) == CHOOSE i \in 1..Len(completed) : completed[i] = t

\* the rows that exist before the merge, as they read: those of the
\* existing report (append mode) and those fetched in this run
TextKeysBeforeMerge ==
    (IF choice = "A" THEN TextKeys(csv0.rows) ELSE {})
        \cup { TextKeyOf(TextOf(results[t].row)) : t \in RowTasks }

\* how many rows with key k exist before the merge
CountBeforeMerge(k) ==
    (IF choice = "A"
     THEN Cardinality({ i \in 1..Len(csv0.rows) : TextKeyOf(csv0.rows[i]) = k })
     ELSE 0)
        + Cardinality({ t \in RowTasks : TextKeyOf(TextOf(results[t].row)) = k })

\* C6 as stated: of several rows with one key, exactly one is in the final
\* report, and it is the row that was assembled last.
C6_LastAssembledWins ==
    (mainpc = "done" /\ outcome = "written") =>
        \A k \in TextKeysBeforeMerge :
            LET mine == { t \in RowTasks : TextKeyOf(TextOf(results[t].row)) = k }
            IN  (CountBeforeMerge(k) > 1 /\ mine # {}) =>
                    LET last == CHOOSE t \in mine :
                                   \A u \in mine : CompletedAt(u) <= CompletedAt(t)
                    IN  /\ Cardinality({ i \in 1..Len(csv.rows) :
                                            TextKeyOf(csv.rows[i]) = k }) = 1
                        /\ \E i \in 1..Len(csv.rows) :
                              csv.rows[i] = TextOf(results[last].row)

\* the frame the merge works on: the existing rows as loaded (append mode),
\* then this run's rows in the order of the input list
MergedFrame ==
    (IF choice = "A" THEN existing_df.rows ELSE <<>>) \o new_data_of(results)

\* the last position of key k in frame df
LastPos(df, k) ==
    CHOOSE i \in 1..Len(df) :
        /\ KeyOf(df[i]) = k
        /\ \A j \in (i + 1)..Len(df) : KeyOf(df[j]) # k

\* C6 as amended: of the rows of the merged frame (existing rows as loaded,
\* then this run's rows in input-list order) whose keys compare equal,
\* exactly one is written: the one that comes last in that order, which for
\* rows of this run is the row of the item latest in the input list,
\* whatever the order in which the invocations returned.
C6_LastInOrderWins ==
    (mainpc = "done" /\ outcome = "written") =>
        LET df == MergedFrame
            keys == { KeyOf(df[i]) : i \in 1..Len(df) }
            rank(k) == Cardinality({ q \in keys : LastPos(df, q) <= LastPos(df, k) })
        IN  /\ Len(csv.rows) = Cardinality(keys)
            /\ \A k \in keys : csv.rows[rank(k)] = TextOf(df[LastPos(df, k)])
            /\ \A t \in RowTasks :
                  (\A u \in RowTasks : KeyOf(results[u].row) = KeyOf(results[t].row) => u <= t)
                  => csv.rows[rank(KeyOf(results[t].row))] = TextOf(results[t].row)

\* C6 witness: a report was written from two rows of one key, and the one
\* later in the input list returned first.
C6_Witness ==
    /\ mainpc = "done" /\ outcome = "written"
    /\ \E t, u \in RowTasks :
          /\ t < u
          /\ KeyOf(results[t].row) = KeyOf(results[u].row)
          /\ results[t].row # results[u].row
          /\ CompletedAt(u) < CompletedAt(t)

\* C9 as stated: an overwrite-mode run that gets through the fetch phase
\* leaves in the file exactly the deduplicated rows fetched in this run, and
\* none of the rows the file held before.
C9_OverwriteAlwaysReplaces ==
    (choice = "O" /\ FetchPhaseDone) =>
        /\ { csv.rows[i] : i \in 1..Len(csv.rows) } \subseteq
              { TextOf(results[t].row) : t \in RowTasks }
        /\ \A t \in RowTasks :
              \E i \in 1..Len(csv.rows) : TextKeyOf(csv.rows[i]) = TextKeyOf(TextOf(results[t].row))

\* C9 as amended: an overwrite-mode run that gets through the fetch phase
\* with at least one fetched row leaves in the file exactly the
\* deduplicated rows fetched in this run (one row per key, the one latest in
\* the input list); when it fetched no row it leaves the file as it was.
C9_OverwriteReplacesWhenRows ==
    (choice = "O" /\ FetchPhaseDone) =>
        IF RowTasks = {}
        THEN csv = csv0
        ELSE /\ csv.exists
             /\ { csv.rows[i] : i \in 1..Len(csv.rows) } =
                   { TextOf(results[t].row) :
                       t \in { t \in RowTasks :
                                 \A u \in RowTasks :
                                    KeyOf(results[u].row) = KeyOf(results[t].row) => u <= t } }
             /\ Len(csv.rows) =
                   Cardinality({ KeyOf(results[t].row) : t \in RowTasks })

\* C9 witness: an overwrite-mode run replaced a report that held a row it
\* did not fetch.
C9_Witness ==
    /\ choice = "O" /\ mainpc = "done" /\ outcome = "written"
    /\ csv0.exists
    /\ \E i \in 1..Len(csv0.rows) :
          \A j \in 1..Len(csv.rows) : csv.rows[j] # csv0.rows[i]

\* C10: a second run in append mode on the same day, on the report the
\* first run wrote, skips every item that gave a row in the first run, adds
\* no row and leaves the report as the first run wrote it.
C10_AppendRerunIdempotent ==
    (/\ prev.ran /\ prev.outcome = "written" /\ prev.date = current_date
     /\ choice = "A" /\ FetchPhaseDone)
    => /\ \A t \in Tasks : prev.results[t].kind = "row" => results[t].kind = "skip"
       /\ RowTasks = {}
       /\ skipped_count = Cardinality({ t \in Tasks : prev.results[t].kind = "row" })
       /\ csv = csv0

\* the existing report lacks a dedup key column and the user chose append
LacksKeyColumn ==
    /\ choice = "A"
    /\ ~({"Product Code", "Date Listed"} \subseteq csv0.columns)

\* C11: in append mode on a report that lacks a dedup key column the run is
\* not aborted for that reason, existing_pairs stays unset and no item is
\* skipped, and, the existing rows being without the dedup columns, the
\* merge removes no row: the written report holds every existing row and
\* every fetched row.
C11_NoRowRemovedWithoutKeys ==
    LacksKeyColumn =>
        /\ existing_pairs.isNone
        /\ \A t \in Tasks : results[t].kind # "skip"
        /\ mainpc = "done" => outcome \in {"auth_error", "no_data", "written"}
        /\ (mainpc = "done" /\ outcome = "written") =>
              Len(csv.rows) = Len(csv0.rows) + Len(new_data_of(results))

\* C12: a row built from a catalog response with L breadcrumbs has no
\* category column when L <= 2, and otherwise exactly the columns
\* category_1..category_{L-2}, category_i holding the text of the breadcrumb
\* at position i+1: the first and the last are dropped, the order is kept.
C12_CategoryColumns ==
    \A t \in Tasks :
        (pc[t] = "done" /\ results[t].kind = "row") =>
            LET bc == catalog_of(t).breadCrumbs
                L == Len(bc)
                cats == results[t].row.categories
            IN  /\ L <= 2 => cats = <<>>
                /\ L > 2 =>
                      /\ DOMAIN cats = 1..(L - 2)
                      /\ \A i \in 1..(L - 2) : cats[i] = bc[i + 1].text
                      /\ \A i \in 1..(L - 2) : cats[i] \notin {bc[1].text, bc[L].text}

\* C12 witness: a row built from a catalog response with MaxCrumbs
\* breadcrumbs, carrying more than one category column.
C12_Witness ==
    \E t \in Tasks :
        /\ pc[t] = "done" /\ results[t].kind = "row"
        /\ Len(catalog_of(t).breadCrumbs) = MaxCrumbs
        /\ Len(results[t].row.categories) = MaxCrumbs - 2
        /\ MaxCrumbs - 2 > 1

\* the positions of the query mark in a path
QueryMarks(p) == { i \in 1..Len(p) : p[i] = "?" }

\* the path up to its first query mark
BeforeQuery(p) ==
    IF QueryMarks(p) = {} THEN p
    ELSE SubSeq(p, 1, (CHOOSE i \in QueryMarks(p) : \A j \in QueryMarks(p) : i <= j) - 1)

\* c is the canonical form of the input path p
Canonical(p, c) ==
    LET q == BeforeQuery(p)
        B == REMOTE_BASE_URL
    IN  IF StartsWith(q, B) THEN q = B \o c ELSE c = q

\* C13: the path an invocation looks up in the catalog, and the path in the
\* Link of its row, is the input line cut at its first '?' and then without
\* the base URL in front, removed once only; the Link is the base URL
\* followed by that path.
C13_CanonicalPath ==
    \A t \in Tasks :
        /\ "catalog" \in calls[t] => Canonical(product_paths[t], clean_path(t))
        /\ results[t].kind = "row" =>
              \E c \in { SubSeq(results[t].row.Link, Len(REMOTE_BASE_URL) + 1,
                                Len(results[t].row.Link)) } :
                  /\ results[t].row.Link = REMOTE_BASE_URL \o c
                  /\ Canonical(product_paths[t], c)

\* C13 witness: a row for an input line that begins with the base URL twice
\* and carries a query string; its Link keeps the second base URL.
C13_Witness ==
    \E t \in Tasks :
        /\ results[t].kind = "row"
        /\ StartsWith(product_paths[t], REMOTE_BASE_URL \o REMOTE_BASE_URL)
        /\ QueryMarks(product_paths[t]) # {}
        /\ StartsWith(results[t].row.Link, REMOTE_BASE_URL \o REMOTE_BASE_URL)

\* the slots of the semaphore that are free
FreeSlots == semaphore

\* C14: an invocation that holds a slot gives it back when it returns,
\* whatever it returns; every launched invocation eventually returns, the
\* gather in main eventually returns, and from the moment every invocation
\* has returned all CONCURRENCY_LIMIT slots are free.
C14_SlotsReleased ==
    /\ [][\A t \in Tasks :
            (t \in InFlight /\ pc'[t] = "done") => semaphore' = semaphore + 1]_vars
    /\ \A t \in 1..LiveItems :
          (t \in Tasks /\ pc[t] = "pending") ~> (t \in Tasks /\ pc[t] = "done")
    /\ (mainpc = "gather") ~> (mainpc = "done" /\ FetchPhaseDone)
    /\ []((mainpc \in {"gather", "done"} /\ \A t \in Tasks : pc[t] = "done")
             => FreeSlots = CONCURRENCY_LIMIT)

\* C14 witness: gather has returned after invocations that ended in a row
\* and in None, one of which had to wait for a slot, and every slot is free.
C14_Witness ==
    /\ FetchPhaseDone
    /\ Len(product_paths) > CONCURRENCY_LIMIT
    /\ \E t, u \in Tasks : results[t].kind = "row" /\ results[u].kind = "None"
    /\ FreeSlots = CONCURRENCY_LIMIT

\* What fetch_product_data returns for a path when it is the only
\* invocation of the run: lines 56-150 taken in sequence.
fetch_alone(path) ==
    LET e == vendor[CleanPath(strip(path))]
        what == catalog_result(e.catalog, existing_pairs, current_date)
    IN  IF what \in {"error", "failed", "no_product_id"} THEN ReturnNone
        ELSE IF what = "skip" THEN Skipped(e.catalog.productName)
        ELSE IF e.product.exc \/ e.price.exc \/ e.inventory.exc THEN ReturnNone
        ELSE ReturnRow(Row(current_date, REMOTE_BASE_URL \o CleanPath(strip(path)),
                           e.catalog.productId, StrCell(e.catalog.productName),
                           vendorSKU_of(e.product), e.catalog.title,
                           price_of(e.price).unit_list_price_display,
                           price_of(e.price).per_units, status_of(e.inventory),
                           category_cols(e.catalog.breadCrumbs)))

\* export.csv after a run of main on the input list paths, each invocation
\* taken on its own: lines 216-243.
report_alone(paths) ==
    LET new_data == RowsOf([ i \in 1..Len(paths) |-> fetch_alone(paths[i]) ], 1)
    IN  IF new_data = <<>> THEN csv0
        ELSE [ exists   |-> TRUE,
               readable |-> TRUE,
               columns  |-> IF choice = "A" THEN csv0.columns \cup ReportColumns
                            ELSE ReportColumns,
               rows     |-> to_csv(df_final_of(choice, existing_df, new_data)) ]

RECURSIVE Without(_, _, _)
\* the list paths without the entries at the positions in drop
Without(paths, drop, i) ==
    IF i > Len(paths) THEN <<>>
    ELSE (IF i \in drop THEN <<>> ELSE <<paths[i]>>) \o Without(paths, drop, i + 1)

\* the items that fail: the vendor's answers for them lead to a catalog
\* failure, a missing productId or an exception
FailingItems == { t \in Tasks : fetch_alone(product_paths[t]).kind = "None" }

\* C15: an item that fails does not touch the rest of the run: every other
\* invocation returns what it would return on its own and not before it has
\* made its own calls, the run goes on to its end, and the report is the
\* one a run on the input list without the failing items leaves.
C15_FailureIsolated ==
    /\ \A u \in Tasks \ FailingItems :
          /\ pc[u] = "done" => results[u] = fetch_alone(product_paths[u])
          /\ pc[u] # "done" => results[u] = Pending
    /\ FetchPhaseDone => csv = report_alone(Without(product_paths, FailingItems, 1))

\* C15 witness: a run ended with a report written in which an item failed
\* with an exception and another one, returned after it, contributed a row.
C15_Witness ==
    /\ FetchPhaseDone /\ outcome = "written"
    /\ \E t, u \in Tasks :
          /\ results[t].kind = "None" /\ calls[t] = {"catalog", "product", "price", "inventory"}
          /\ results[u].kind = "row"
          /\ CompletedAt(t) < CompletedAt(u)

\* every vendor call is made after the token call succeeded and carries the
\* token it returned
CallsCarryToken ==
    [][\A t \in Tasks :
         calls'[t] \ calls[t] # {} =>
            /\ token_calls = 1 /\ ~TokenFailed
            /\ \A h \in carried'[t] :
                  h.Authorization = <<"Bearer", token_resp.access_token>>]_vars

\* the token and the existing-keys set are not modified during the fetch phase
FetchPhaseReadsOnly ==
    [][mainpc = "gather" =>
         /\ access_token' = access_token
         /\ headers' = headers
         /\ existing_pairs' = existing_pairs
         /\ token_calls' = token_calls]_vars

\* C16 as stated: every run calls the token endpoint exactly once, every
\* vendor call comes after that call succeeded and carries its token, and
\* the token and the existing-keys set are not modified during the fetch
\* phase.
C16_TokenOnceEveryRun ==
    /\ [](mainpc = "done" => token_calls = 1)
    /\ CallsCarryToken
    /\ FetchPhaseReadsOnly

\* C16: no run calls the token endpoint more than once, a run that has
\* product paths to fetch calls it exactly once and a run whose products.txt
\* holds no path does not call it; every vendor call comes after that call
\* succeeded and carries its token, and the token and the existing-keys set
\* are not modified during the fetch phase.
C16_TokenOnceWhenFetching ==
    /\ [](token_calls <= 1)
    /\ [](mainpc = "done" => token_calls = IF product_paths = <<>> THEN 0 ELSE 1)
    /\ [](mainpc = "gather" => token_calls = 1 /\ ~TokenFailed)
    /\ CallsCarryToken
    /\ FetchPhaseReadsOnly

\* C16 witness: after one token call an invocation has made its four vendor
\* calls, all with the token that call returned, while another invocation
\* has not called yet.
C16_Witness ==
    /\ token_calls = 1
    /\ access_token = token_resp.access_token
    /\ \E t, u \in Tasks :
          /\ calls[t] = {"catalog", "product", "price", "inventory"}
          /\ \E h \in carried[t] : h.Authorization = <<"Bearer", access_token>>
          /\ calls[u] = {}

\* C17: a run writes the report at most once, and only after every launched
\* invocation has returned: the file changes in no step but the one that
\* follows gather, and in no state has the run written while an invocation
\* is waiting for a slot or in flight.
C17_WriteOnceAfterFetch ==
    /\ [](writes <= 1)
    /\ [](writes > 0 => \A t \in Tasks : pc[t] = "done")
    /\ [][(csv' # csv \/ writes' > writes) =>
             /\ \A t \in Tasks : pc[t] = "done"
             /\ writes = 0 /\ writes' = 1
             /\ mainpc = "gather" /\ mainpc' = "done"]_vars

\* C17 witness: the report has been written once, after the invocations of
\* a list longer than the number of slots have all returned.
C17_Witness ==
    /\ writes = 1
    /\ csv # csv0
    /\ Len(product_paths) > CONCURRENCY_LIMIT
    /\ Len(completed) = Len(product_paths)

\* C18: whatever the interleaving and the order in which the invocations
\* return, the results list holds, in input-list order, what each item gives
\* on its own, and the report left by the run is the one computed from the
\* input list, the mode, the existing report, the date and the vendor's
\* answers alone, including which of several rows with one key is kept.
C18_ScheduleIndependent ==
    /\ (mainpc = "gather" /\ gather_returns) =>
          results = [ t \in Tasks |-> fetch_alone(product_paths[t]) ]
    /\ FetchPhaseDone =>
          /\ results = [ t \in Tasks |-> fetch_alone(product_paths[t]) ]
          /\ csv = report_alone(product_paths)

\* C18 witness: two items gave rows with one key, the later one in the list
\* returned first, and the report has been written.
C18_Witness ==
    /\ FetchPhaseDone /\ outcome = "written"
    /\ \E t, u \in Tasks :
          /\ t < u
          /\ results[t].kind = "row" /\ results[u].kind = "row"
          /\ results[t].row # results[u].row
          /\ KeyOf(results[t].row) = KeyOf(results[u].row)
          /\ CompletedAt(u) < CompletedAt(t)

\* the rows of the merged set as they read: the existing report's rows,
\* then the rows fetched in this run
MergedText == csv0.rows \o to_csv(new_data_of(results))

\* C19: after a run in append mode every (Product Code, Date Listed) key the
\* report held before the run is still in the report, and an existing row
\* is gone only if a row with its key comes later in the merged set.
C19_AppendKeepsKeys ==
    (choice = "A" /\ mainpc = "done") =>
        /\ TextKeys(csv0.rows) \subseteq TextKeys(csv.rows)
        /\ \A i \in 1..Len(csv0.rows) :
              \/ \E k \in 1..Len(csv.rows) : csv.rows[k] = csv0.rows[i]
              \/ \E j \in (i + 1)..Len(MergedText) :
                    TextKeyOf(MergedText[j]) = TextKeyOf(csv0.rows[i])

====
